---- MODULE Spec2Model ----
(***************************************************************************)
(* Singe: audio CD layout and production engine (src/Singe.py).            *)
(*                                                                         *)
(* The module models                                                       *)
(*   - BurnJob / BatchBurnQueue and the batch execution loop               *)
(*     (batch_burn_interactive) driven from the batch-queue menu of main;  *)
(*   - the pure functions split_into_discs, frames_to_msf and              *)
(*     sanitize_cdtext, each applied to inputs drawn from bounded sets.    *)
(*                                                                         *)
(* Python lists are 0-based; sequences here are 1-based, so the job at     *)
(* Python index i is jobs[i + 1].  current_job_index keeps the Python      *)
(* (0-based) value.                                                        *)
(***************************************************************************)
EXTENDS Integers, Sequences, FiniteSets, TLC

VARIABLES
    jobs,               \* BatchBurnQueue.jobs: the list of BurnJob objects
    current_job_index,  \* BatchBurnQueue.current_job_index
    pc,                 \* position of the interactive driver
    job,                \* local variable `job` of batch_burn_interactive (object identity)
    ret,                \* value returned by the last queue method call
    burn_calls,         \* per job object: calls of burn_audio_cd made for it
    next_id,            \* identity of the next BurnJob object to be constructed
    call,               \* arguments of the pure function under analysis
    result              \* its return value

vars == <<jobs, current_job_index, pc, job, ret, burn_calls, next_id, call, result>>

queueVars == <<jobs, current_job_index, pc, job, ret, burn_calls, next_id>>
pureVars == <<call, result>>

-----------------------------------------------------------------------------
(* Bounds of the model *)

\* BurnJob objects constructed over one session of the batch-queue menu
MaxJobs == 3
\* largest elapsed burn time (time.time() difference, in whole seconds) recorded
MaxBurnTime == 1

-----------------------------------------------------------------------------
(* BurnJob *)

\* self.burn_time = None
NoTime == -1
\* self.error_message = None
NoMessage == "<None>"
\* get_next_job's `return None`; job objects are identified by 1, 2, ...
NoJob == 0

Terminal == {"completed", "failed", "skipped"}

\* the settings dictionary main builds for a job ("Use default settings?" answered y)
DefaultSettings ==
    [normalize |-> TRUE, speed |-> 8, use_cdtext |-> TRUE, track_gaps |-> "None",
     fade_ins |-> "None", fade_outs |-> "None", multi_session |-> FALSE, finalize |-> TRUE]

\* what the operator enters for a new job: name, files, settings
JobInputs ==
    { [name |-> "Album 1", audio_files |-> <<"a.mp3", "b.mp3">>, settings |-> DefaultSettings] }

\* BurnJob.__init__
BurnJob(id, name, audio_files, settings) ==
    [id |-> id, name |-> name, audio_files |-> audio_files, settings |-> settings,
     status |-> "pending", error_message |-> NoMessage, burn_time |-> NoTime]

-----------------------------------------------------------------------------
(* BatchBurnQueue: each method maps the queue to the queue after the call  *)
(* plus the returned value.                                                *)

Queue == [jobs |-> jobs, current_job_index |-> current_job_index]

\* add_job: self.jobs.append(job)
add_job(q, j) ==
    [jobs |-> Append(q.jobs, j), current_job_index |-> q.current_job_index, value |-> "None"]

\* del self.jobs[index]
DelAt(s, index) ==
    [k \in 1..(Len(s) - 1) |-> IF k < index + 1 THEN s[k] ELSE s[k + 1]]

\* variant: the lower bound of the index check is missing, so Python's negative
\* indexing deletes from the end of the list
remove_job_no_lower_bound(q, index) ==
    IF index < Len(q.jobs) /\ q.jobs # <<>>
    THEN [jobs |-> DelAt(q.jobs, IF index < 0 THEN Len(q.jobs) + index ELSE index),
          current_job_index |-> q.current_job_index, value |-> TRUE]
    ELSE [jobs |-> q.jobs, current_job_index |-> q.current_job_index, value |-> FALSE]

\* remove_job
remove_job(q, index) ==
    IF 0 <= index /\ index < Len(q.jobs)
    THEN [jobs |-> DelAt(q.jobs, index), current_job_index |-> q.current_job_index,
          value |-> TRUE]
    ELSE [jobs |-> q.jobs, current_job_index |-> q.current_job_index, value |-> FALSE]

\* the for loop of get_next_job, from index i on
RECURSIVE ScanPending(_, _)
ScanPending(q, i) ==
    IF i >= Len(q.jobs)
    THEN [jobs |-> q.jobs, current_job_index |-> q.current_job_index, value |-> NoJob]
    ELSE IF q.jobs[i + 1].status = "pending"
         THEN [jobs |-> q.jobs, current_job_index |-> i, value |-> q.jobs[i + 1].id]
         ELSE ScanPending(q, i + 1)

\* the same loop looking for any status of a set
RECURSIVE ScanStatus(_, _, _)
ScanStatus(q, i, wanted) ==
    IF i >= Len(q.jobs)
    THEN [jobs |-> q.jobs, current_job_index |-> q.current_job_index, value |-> NoJob]
    ELSE IF q.jobs[i + 1].status \in wanted
         THEN [jobs |-> q.jobs, current_job_index |-> i, value |-> q.jobs[i + 1].id]
         ELSE ScanStatus(q, i + 1, wanted)

\* variant: the scan starts after the cursor
get_next_job_skip_current(q) == ScanPending(q, q.current_job_index + 1)

\* variant: the scan starts at the head of the list
get_next_job_from_zero(q) == ScanPending(q, 0)

\* variant: every job that is not completed is handed out
get_next_job_not_completed(q) ==
    ScanStatus(q, q.current_job_index, {"pending", "failed", "skipped"})

\* variant: failed jobs are retried
get_next_job_retry_failed(q) ==
    ScanStatus(q, q.current_job_index, {"pending", "failed"})

\* get_next_job
get_next_job(q) == ScanPending(q, q.current_job_index)

-----------------------------------------------------------------------------
(* The batch-queue menu of main (choice '11') *)

\* option 1: a BurnJob is constructed and appended
AddJob ==
    /\ pc = "menu"
    /\ next_id <= MaxJobs
    /\ \E in \in JobInputs :
         LET q == add_job(Queue, BurnJob(next_id, in.name, in.audio_files, in.settings))
         IN /\ jobs' = q.jobs
            /\ current_job_index' = q.current_job_index
            /\ ret' = [op |-> "add_job", index |-> -1, value |-> NoJob, ok |-> TRUE]
    /\ next_id' = next_id + 1
    /\ UNCHANGED <<pc, job, burn_calls, pureVars>>

\* option 2: remove_job(index); the method itself accepts any integer
RemoveJob(index) ==
    /\ pc = "menu"
    /\ LET q == remove_job(Queue, index)
       IN /\ jobs' = q.jobs
          /\ current_job_index' = q.current_job_index
          /\ ret' = [op |-> "remove_job", index |-> index, value |-> NoJob, ok |-> q.value]
    /\ UNCHANGED <<pc, job, burn_calls, next_id, pureVars>>

RemoveAnyJob == \E index \in -1..(Len(jobs) + 1) : RemoveJob(index)

\* the contract of the queue: only a pending job is removed
RemovePendingJob ==
    \E index \in 0..(Len(jobs) - 1) :
        /\ jobs[index + 1].status = "pending"
        /\ RemoveJob(index)

\* option 5: jobs.clear(); current_job_index = 0
ClearQueue ==
    /\ pc = "menu"
    /\ jobs # <<>>
    /\ jobs' = <<>>
    /\ current_job_index' = 0
    /\ ret' = [op |-> "clear", index |-> -1, value |-> NoJob, ok |-> TRUE]
    /\ UNCHANGED <<pc, job, burn_calls, next_id, pureVars>>

-----------------------------------------------------------------------------
(* batch_burn_interactive *)

PendingCount == Cardinality({i \in 1..Len(jobs) : jobs[i].status = "pending"})

\* no function under analysis, no value returned yet
NoCall == [fn |-> "none"]
NoResult == [kind |-> "none"]

\* assignment to fields of the object `job` refers to
SetJob(js, id, status, message, time) ==
    [k \in 1..Len(js) |->
        IF js[k].id = id
        THEN [js[k] EXCEPT !.status = status, !.error_message = message, !.burn_time = time]
        ELSE js[k]]

JobOf(id) == CHOOSE k \in 1..Len(jobs) : jobs[k].id = id

\* option 4: the queue is non-empty, has pending jobs, and the operator confirms
StartBatch ==
    /\ pc = "menu"
    /\ jobs # <<>>
    /\ PendingCount # 0
    /\ pc' = "next"
    /\ job' = NoJob
    /\ UNCHANGED <<jobs, current_job_index, ret, burn_calls, next_id, pureVars>>

\* job = queue.get_next_job(); if not job: break
GetNextJob ==
    /\ pc = "next"
    /\ LET q == get_next_job(Queue)
       IN /\ jobs' = q.jobs
          /\ current_job_index' = q.current_job_index
          /\ job' = q.value
          /\ ret' = [op |-> "get_next_job", index |-> q.current_job_index,
                     value |-> q.value, ok |-> q.value # NoJob]
          /\ pc' = IF q.value = NoJob THEN "menu" ELSE "disc"
    /\ result' = NoResult
    /\ UNCHANGED <<burn_calls, next_id, call>>

\* "Skip this job?" / "Continue anyway?" has not been asked
NotAsked == "<not asked>"

\* what check_disc_status can return to the loop: no disc, a blank disc, a
\* disc that is not blank
DiscInfos ==
    {[inserted |-> FALSE, blank |-> FALSE],
     [inserted |-> TRUE, blank |-> TRUE],
     [inserted |-> TRUE, blank |-> FALSE]}

\* input("Insert blank CD ..."); disc_info = self.check_disc_status()
CheckDiscStatus ==
    /\ pc = "disc"
    /\ \E d \in DiscInfos :
         result' = [kind |-> "disc_info", inserted |-> d.inserted, blank |-> d.blank,
                    answer |-> NotAsked]
    /\ pc' = "decide"
    /\ UNCHANGED <<jobs, current_job_index, job, ret, burn_calls, next_id, call>>

\* the operator's answer is kept with the disc_info it was given for
Answered(answer) == [result EXCEPT !.answer = answer]

\* no disc detected, "Skip this job?" answered y
NoDiscSkip ==
    /\ pc = "decide"
    /\ ~result.inserted
    /\ jobs' = SetJob(jobs, job, "skipped", "No disc inserted", jobs[JobOf(job)].burn_time)
    /\ pc' = "next"
    /\ result' = Answered("y")
    /\ UNCHANGED <<current_job_index, job, ret, burn_calls, next_id, call>>

\* no disc detected, "Skip this job?" answered otherwise: the batch is aborted
NoDiscAbort ==
    /\ pc = "decide"
    /\ ~result.inserted
    /\ pc' = "menu"
    /\ result' = NoResult
    /\ UNCHANGED <<jobs, current_job_index, job, ret, burn_calls, next_id, call>>

\* variant: the job declined for a disc that is not blank stays pending
NotBlankSkipLeavesPending ==
    /\ pc = "decide"
    /\ result.inserted /\ ~result.blank
    /\ pc' = "next"
    /\ result' = Answered("n")
    /\ UNCHANGED <<jobs, current_job_index, job, ret, burn_calls, next_id, call>>

\* disc inserted but not blank, "Continue anyway?" not answered y
NotBlankSkip ==
    /\ pc = "decide"
    /\ result.inserted /\ ~result.blank
    /\ jobs' = SetJob(jobs, job, "skipped", "Disc not blank", jobs[JobOf(job)].burn_time)
    /\ pc' = "next"
    /\ result' = Answered("n")
    /\ UNCHANGED <<current_job_index, job, ret, burn_calls, next_id, call>>

\* variant: the burn goes ahead whatever check_disc_status returned
ProceedToBurnUnchecked ==
    /\ pc = "decide"
    /\ pc' = "burn"
    /\ UNCHANGED <<jobs, current_job_index, job, ret, burn_calls, next_id, pureVars>>

\* blank disc, or not blank and "Continue anyway?" answered y
ProceedToBurn ==
    /\ pc = "decide"
    /\ result.inserted
    /\ pc' = "burn"
    /\ result' = IF result.blank THEN result ELSE Answered("y")
    /\ UNCHANGED <<jobs, current_job_index, job, ret, burn_calls, next_id, call>>

CountBurn == [burn_calls EXCEPT ![job] = @ + 1]

\* variant: a completed job is taken off the queue
BurnSucceedsAndDequeues ==
    /\ pc = "burn"
    /\ burn_calls' = CountBurn
    /\ jobs' = DelAt(jobs, current_job_index)
    /\ pc' = "next"
    /\ UNCHANGED <<current_job_index, job, ret, next_id, pureVars>>

\* burn_audio_cd returned True
BurnSucceeds ==
    /\ pc = "burn"
    /\ burn_calls' = CountBurn
    /\ \E t \in 1..MaxBurnTime :
         jobs' = SetJob(jobs, job, "completed", jobs[JobOf(job)].error_message, t)
    /\ pc' = "next"
    /\ UNCHANGED <<current_job_index, job, ret, next_id, pureVars>>

\* burn_audio_cd returned False
BurnFails ==
    /\ pc = "burn"
    /\ burn_calls' = CountBurn
    /\ \E t \in 1..MaxBurnTime :
         jobs' = SetJob(jobs, job, "failed", "Burn operation failed", t)
    /\ pc' = "ask"
    /\ UNCHANGED <<current_job_index, job, ret, next_id, pureVars>>

\* str(e) of an exception raised by burn_audio_cd
ExceptionTexts == {"", "cdrdao not found"}

\* burn_audio_cd raised: burn_time is not assigned
BurnRaises ==
    /\ pc = "burn"
    /\ burn_calls' = CountBurn
    /\ \E m \in ExceptionTexts :
         jobs' = SetJob(jobs, job, "failed", m, jobs[JobOf(job)].burn_time)
    /\ pc' = "ask"
    /\ UNCHANGED <<current_job_index, job, ret, next_id, pureVars>>

\* "Continue with remaining jobs?" answered y
ContinueBatch ==
    /\ pc = "ask"
    /\ pc' = "next"
    /\ UNCHANGED <<jobs, current_job_index, job, ret, burn_calls, next_id, pureVars>>

\* "Continue with remaining jobs?" answered otherwise
AbortBatch ==
    /\ pc = "ask"
    /\ pc' = "menu"
    /\ result' = NoResult
    /\ UNCHANGED <<jobs, current_job_index, job, ret, burn_calls, next_id, call>>

-----------------------------------------------------------------------------
(* Specifications of the queue *)

QueueInit ==
    /\ jobs = <<>>
    /\ current_job_index = 0
    /\ pc = "menu"
    /\ job = NoJob
    /\ ret = [op |-> "none", index |-> -1, value |-> NoJob, ok |-> TRUE]
    /\ burn_calls = [id \in 1..MaxJobs |-> 0]
    /\ next_id = 1

Init ==
    /\ QueueInit
    /\ call = NoCall
    /\ result = NoResult

LoopNext ==
    \/ StartBatch
    \/ GetNextJob
    \/ CheckDiscStatus
    \/ NoDiscSkip
    \/ NoDiscAbort
    \/ NotBlankSkip
    \/ ProceedToBurn
    \/ BurnSucceeds
    \/ BurnFails
    \/ BurnRaises
    \/ ContinueBatch
    \/ AbortBatch

Next ==
    \/ AddJob
    \/ RemoveAnyJob
    \/ ClearQueue
    \/ LoopNext

Spec == Init /\ [][Next]_vars

\* the queue used within its contract: only pending jobs are removed
ContractNext ==
    \/ AddJob
    \/ RemovePendingJob
    \/ ClearQueue
    \/ LoopNext

SpecContract == Init /\ [][ContractNext]_vars

-----------------------------------------------------------------------------
(* Properties of BatchBurnQueue and the batch loop *)

PendingIndexes(js) == {k \in 1..Len(js) : js[k].status = "pending"}

LowestOf(S) == CHOOSE k \in S : \A m \in S : k <= m

\* the job the queue should hand out: the lowest-indexed pending one, else none
LowestPending(js) ==
    IF PendingIndexes(js) = {} THEN NoJob ELSE js[LowestOf(PendingIndexes(js))].id

\* C3: within the queue's contract (jobs appended by add_job, only pending jobs
\* removed, status only pending -> completed/failed/skipped) every get_next_job
\* call returns the lowest-indexed pending job of the whole queue, and None
\* exactly when no job is pending.
C3_NextIsLowestPending ==
    [][GetNextJob => ret'.value = LowestPending(jobs)]_vars

\* get_next_job has just skipped a completed and a failed job
C3_Witness ==
    /\ pc = "disc"
    /\ ret.op = "get_next_job"
    /\ Len(jobs) >= 3
    /\ jobs[1].status = "completed"
    /\ jobs[2].status = "failed"
    /\ ret.value = jobs[3].id

\* C4: without clearing the queue, current_job_index never moves backward and
\* the job get_next_job returns sits at current_job_index, so no call returns
\* an index lower than an earlier call did.
C4_CursorNeverBack ==
    [][ \/ ClearQueue
        \/ /\ current_job_index' >= current_job_index
           /\ (GetNextJob /\ ret'.value # NoJob) =>
                 /\ current_job_index' < Len(jobs')
                 /\ jobs'[current_job_index' + 1].id = ret'.value ]_vars

\* a later call has returned a higher index, with a job added in between runs
C4_Witness ==
    /\ pc = "disc"
    /\ ret.op = "get_next_job"
    /\ current_job_index = 2
    /\ jobs[1].status = "failed"

IdsOf(js) == {js[k].id : k \in 1..Len(js)}

ById(js, id) == js[CHOOSE k \in 1..Len(js) : js[k].id = id]

\* C5: a job is pending when it enters the queue, and a status only ever moves
\* from pending to completed, failed or skipped; no step changes a terminal
\* status again.
C5_StatusOneWay ==
    [][\A id \in IdsOf(jobs') :
          IF id \in IdsOf(jobs)
          THEN \/ ById(jobs', id).status = ById(jobs, id).status
               \/ /\ ById(jobs, id).status = "pending"
                  /\ ById(jobs', id).status \in Terminal
          ELSE ById(jobs', id).status = "pending"]_vars

\* a run is under way over a queue that holds terminal jobs of all three kinds
C5_Witness ==
    /\ pc = "disc"
    /\ \E a, b, c \in 1..Len(jobs) :
         /\ jobs[a].status = "failed"
         /\ jobs[b].status = "skipped"
         /\ jobs[c].status = "pending"
         /\ a < c /\ b < c

\* a step taken inside batch_burn_interactive
LoopStep == pc # "menu" \/ StartBatch

\* C6: the batch loop never adds, removes or reorders jobs, never changes a
\* job's name, track list or settings, and changes status, error_message and
\* burn_time only on the job get_next_job returned last.
C6_LoopFrame ==
    [][LoopStep =>
         /\ Len(jobs') = Len(jobs)
         /\ \A k \in 1..Len(jobs) :
              /\ jobs'[k].id = jobs[k].id
              /\ jobs'[k].name = jobs[k].name
              /\ jobs'[k].audio_files = jobs[k].audio_files
              /\ jobs'[k].settings = jobs[k].settings
              /\ jobs'[k] # jobs[k] => (jobs[k].id = ret.value /\ ret.op = "get_next_job")]_vars

\* the loop has completed the second of three jobs and left the others alone
C6_Witness ==
    /\ pc = "next"
    /\ Len(jobs) = 3
    /\ jobs[1].status = "skipped"
    /\ jobs[2].status = "completed"
    /\ jobs[2].burn_time # NoTime
    /\ jobs[3].status = "pending"

\* the first pending job behind position k (1-based), else none
NextPendingAfter(js, k) ==
    LET later == {m \in PendingIndexes(js) : m > k}
    IN IF later = {} THEN NoJob ELSE js[LowestOf(later)].id

\* C7: burn_audio_cd is invoked at most once per job over the lifetime of the
\* queue, and after a job failed and the operator chose to continue, the next
\* job processed is the next pending job behind it.
C7_NoRetry ==
    [][ /\ \A id \in 1..MaxJobs : burn_calls'[id] <= 1
        /\ (GetNextJob /\ job # NoJob /\ ById(jobs, job).status = "failed") =>
              ret'.value = NextPendingAfter(jobs, JobOf(job)) ]_vars

\* the job after a failed (and once burned) job is being processed
C7_Witness ==
    /\ pc = "burn"
    /\ \E k \in 1..(Len(jobs) - 1) :
         /\ jobs[k].status = "failed"
         /\ burn_calls[jobs[k].id] = 1
         /\ jobs[k + 1].id = job

\* C8: remove_job(index) with 0 <= index < len(jobs) removes exactly the job at
\* that index, keeps the others in order and returns True; any other index
\* returns False and leaves the job list and the cursor unchanged.
C8_RemoveJob ==
    [][\A index \in -1..(Len(jobs) + 1) :
          RemoveJob(index) =>
             IF 0 <= index /\ index < Len(jobs)
             THEN /\ ret'.ok = TRUE
                  /\ Len(jobs') = Len(jobs) - 1
                  /\ \A k \in 1..index : jobs'[k] = jobs[k]
                  /\ \A k \in (index + 1)..Len(jobs') : jobs'[k] = jobs[k + 1]
             ELSE /\ ret'.ok = FALSE
                  /\ jobs' = jobs
                  /\ current_job_index' = current_job_index]_vars

\* the middle job of three has been removed
C8_Witness ==
    /\ ret.op = "remove_job"
    /\ ret.ok = TRUE
    /\ ret.index = 1
    /\ Len(jobs) = 2
    /\ jobs[1].id = 1
    /\ jobs[2].id = 3

\* C19: a completed job has its burn_time recorded and carries no
\* error_message; a failed job (the writer reported failure, or raised)
\* carries a non-empty error_message; every skipped job carries an
\* error_message.
C19_OutcomeFields ==
    \A k \in 1..Len(jobs) :
        /\ jobs[k].status = "completed" =>
              (jobs[k].burn_time # NoTime /\ jobs[k].error_message = NoMessage)
        /\ jobs[k].status = "failed" => jobs[k].error_message \notin {NoMessage, ""}
        /\ jobs[k].status = "skipped" => jobs[k].error_message \notin {NoMessage, ""}

\* C20: when a job has failed and the operator does not answer y to
\* "Continue with remaining jobs?", the loop is left at once: no job is fetched
\* or burned, no job changes, every pending job is still pending and is what
\* the next run's get_next_job hands out.
C20_AbortLeavesPending ==
    [][(pc = "ask" /\ pc' # "next") =>
         /\ pc' = "menu"
         /\ jobs' = jobs
         /\ burn_calls' = burn_calls
         /\ get_next_job([jobs |-> jobs', current_job_index |-> current_job_index']).value
               = LowestPending(jobs)]_vars

\* C21: the writer is invoked for a job only after the disc was checked in
\* that iteration, a disc was detected, and the disc is blank or the operator
\* answered y to "Continue anyway?"; a job that is skipped, or still pending
\* (also after an abort), never had the writer invoked for it.
C21_DiscCheckedBeforeBurn ==
    [][ /\ (burn_calls' # burn_calls) =>
              /\ result.kind = "disc_info"
              /\ result.inserted
              /\ result.blank \/ result.answer = "y"
        /\ \A k \in 1..Len(jobs') :
              jobs'[k].status \in {"skipped", "pending"} => burn_calls'[jobs'[k].id] = 0 ]_vars

\* a job was burned on a non-blank disc the operator accepted, after an
\* earlier job was skipped without a burn
C21_Witness ==
    /\ pc \in {"next", "ask"}
    /\ result.kind = "disc_info"
    /\ result.inserted /\ ~result.blank /\ result.answer = "y"
    /\ job \in IdsOf(jobs)
    /\ burn_calls[job] = 1
    /\ \E k \in 1..Len(jobs) : jobs[k].status = "skipped" /\ burn_calls[jobs[k].id] = 0

\* C27: whatever add_job, remove_job on a valid index (of a pending or a
\* finished job), get_next_job and status changes have happened, no pending job
\* sits at an index below current_job_index, and get_next_job returns None only
\* when no job in the queue is pending.
C27_NoPendingStranded ==
    /\ \A k \in 1..Len(jobs) : jobs[k].status = "pending" => k - 1 >= current_job_index
    /\ get_next_job(Queue).value = NoJob => PendingIndexes(jobs) = {}

\* C28: the batch loop terminates: an iteration starts only on a pending job,
\* and every iteration either moves that job out of pending or leaves the
\* loop, so the pending count drops by one per iteration and never rises
\* inside the loop.
C28_LoopTerminates ==
    [][LoopStep =>
         /\ PendingCount' <= PendingCount
         /\ pc' = "disc" => (pc = "next" /\ PendingCount >= 1
                               /\ ById(jobs, job').status = "pending")
         /\ pc' \in {"next", "ask"} =>
               \/ pc = "menu"
               \/ pc = "ask" /\ pc' = "next"
               \/ /\ pc \in {"decide", "burn"}
                  /\ PendingCount' = PendingCount - 1
                  /\ ById(jobs', job).status \in Terminal ]_vars

\* a run over three pending jobs took three iterations and ended when
\* get_next_job found nothing left
C28_Witness ==
    /\ pc = "menu"
    /\ ret.op = "get_next_job" /\ ret.value = NoJob
    /\ Len(jobs) = 3
    /\ jobs[1].status = "skipped"
    /\ jobs[2].status = "failed"
    /\ jobs[3].status = "completed"

-----------------------------------------------------------------------------
(* split_into_discs.  Durations are floats in the code; here they are      *)
(* counted in tenths of a second, capacities stay in whole seconds.        *)

\* tracks of one planning call (bounds the input list)
MaxTracks == 3

CD_74_MIN_SECONDS == 74 * 60
CD_80_MIN_SECONDS == 80 * 60
DEFAULT_GAP_SECONDS == 2

\* get_audio_duration returned None
Unresolved == -1

Tenths(seconds) == seconds * 10

\* what get_audio_duration may report for a file: None, 0.0, or a length
\* (200 s, 300 s, 2000 s, 2348 s, 4000 s, 4750.5 s, 4900 s)
DurationValues == {Unresolved, 0, 2000, 3000, 20000, 23480, 40000, 47505, 49000}

\* safety_margin = int(cd_capacity * 0.02), in seconds
safety_margin(cd_capacity) == (cd_capacity * 2) \div 100

\* gap_overhead, in seconds
gap_overhead(include_gaps) == IF include_gaps THEN DEFAULT_GAP_SECONDS ELSE 0

\* `if duration:` is false for None and for 0.0
Truthy(duration) == duration # Unresolved /\ duration # 0

\* the first loop: file_durations, the (file, duration) pairs that are kept
RECURSIVE file_durations(_, _, _)
file_durations(audio_files, durations, i) ==
    IF i > Len(audio_files) THEN <<>>
    ELSE IF Truthy(durations[i])
         THEN <<[file |-> audio_files[i], duration |-> durations[i]]>>
              \o file_durations(audio_files, durations, i + 1)
         ELSE file_durations(audio_files, durations, i + 1)

Disc(current_disc, current_duration) ==
    [tracks |-> current_disc, duration |-> current_duration,
     track_count |-> Len(current_disc)]

\* variant: the track about to be added is left out of the check
NeedsNewDiscIgnoringTrack(current_disc, current_duration, track_total, margin, cd_capacity) ==
    /\ current_disc # <<>>
    /\ current_duration + Tenths(margin) > Tenths(cd_capacity)

\* variant: a disc filled exactly to capacity less margin is closed as well
NeedsNewDiscAtLimit(current_disc, current_duration, track_total, margin, cd_capacity) ==
    /\ current_disc # <<>>
    /\ current_duration + track_total + Tenths(margin) >= Tenths(cd_capacity)

\* the condition that closes the current disc
NeedsNewDisc(current_disc, current_duration, track_total, margin, cd_capacity) ==
    /\ current_disc # <<>>
    /\ current_duration + track_total + Tenths(margin) > Tenths(cd_capacity)

\* the second loop, from pair k on, and the final disc
RECURSIVE SplitLoop(_, _, _, _, _, _, _)
SplitLoop(fd, k, discs, current_disc, current_duration, gap, cd_capacity) ==
    IF k > Len(fd)
    THEN IF current_disc # <<>>
         THEN Append(discs, Disc(current_disc, current_duration))
         ELSE discs
    ELSE LET track_total == fd[k].duration + Tenths(gap)
             close == NeedsNewDisc(current_disc, current_duration, track_total,
                                   safety_margin(cd_capacity), cd_capacity)
         IN IF close
            THEN SplitLoop(fd, k + 1, Append(discs, Disc(current_disc, current_duration)),
                           <<fd[k].file>>, track_total, gap, cd_capacity)
            ELSE SplitLoop(fd, k + 1, discs,
                           Append(current_disc, fd[k].file),
                           current_duration + track_total, gap, cd_capacity)

\* split_into_discs; durations[i] is what the prober reports for audio_files[i]
split_into_discs(audio_files, durations, cd_capacity, include_gaps) ==
    LET fd == file_durations(audio_files, durations, 1)
    IN IF fd = <<>> THEN <<>>
       ELSE SplitLoop(fd, 1, <<>>, <<>>, 0, gap_overhead(include_gaps), cd_capacity)

\* the files of a call are told apart by their position in the list
FilesOf(n) == [i \in 1..n |-> i]

PlannerCalls ==
    { [fn |-> "split_into_discs", audio_files |-> FilesOf(Len(d)), durations |-> d,
       cd_capacity |-> c, include_gaps |-> g] :
         d \in UNION { [1..n -> DurationValues] : n \in 0..MaxTracks },
         c \in {CD_74_MIN_SECONDS, CD_80_MIN_SECONDS},
         g \in BOOLEAN }

PlannerInit ==
    /\ QueueInit
    /\ call \in PlannerCalls
    /\ result = NoResult

SplitIntoDiscs ==
    /\ call.fn = "split_into_discs"
    /\ result = NoResult
    /\ result' = [kind |-> "discs",
                  discs |-> split_into_discs(call.audio_files, call.durations,
                                             call.cd_capacity, call.include_gaps)]
    /\ UNCHANGED <<call, queueVars>>

PlannerNext == SplitIntoDiscs

SpecPlanner == PlannerInit /\ [][PlannerNext]_vars

RECURSIVE ConcatTracks(_, _)
ConcatTracks(discs, k) ==
    IF k > Len(discs) THEN <<>> ELSE discs[k].tracks \o ConcatTracks(discs, k + 1)

\* C1: for any input, also one with unresolved or zero durations, the discs'
\* track lists concatenated in order are the input list: same tracks, same
\* order, nothing twice, nothing left out.  (The empty plan, the planner's
\* answer when no duration at all could be resolved, is left aside.)
C1_OrderPreserved ==
    (result.kind = "discs" /\ result.discs # <<>>) =>
        ConcatTracks(result.discs, 1) = call.audio_files

RECURSIVE SumTotals(_, _, _)
SumTotals(tracks, k, gap) ==
    IF k > Len(tracks) THEN 0
    ELSE call.durations[tracks[k]] + Tenths(gap) + SumTotals(tracks, k + 1, gap)

\* sum(duration + gap) of a disc, from the probed durations of its tracks
DiscTotal(disc) ==
    SumTotals(disc.tracks, 1, IF call.include_gaps THEN DEFAULT_GAP_SECONDS ELSE 0)

\* C2 as stated: no disc has sum(duration + gap) + margin > capacity, margin
\* being 2% of the capacity, unless the plan is exactly one disc made of a
\* single track whose own total exceeds the capacity.
C2_CapacityInvariant ==
    result.kind = "discs" =>
        \A k \in 1..Len(result.discs) :
            \/ DiscTotal(result.discs[k]) * 100 + Tenths(call.cd_capacity) * 2
                   <= Tenths(call.cd_capacity) * 100
            \/ /\ Len(result.discs) = 1
               /\ Len(result.discs[k].tracks) = 1
               /\ DiscTotal(result.discs[k]) > Tenths(call.cd_capacity)

\* C2 (amended): every disc of a plan that holds two or more tracks has
\* sum(duration + gap) + margin <= capacity, margin being the whole-second
\* value int(capacity * 0.02); a disc above that limit holds a single track.
C2_MultiTrackDiscsFit ==
    result.kind = "discs" =>
        \A k \in 1..Len(result.discs) :
            Len(result.discs[k].tracks) >= 2 =>
                DiscTotal(result.discs[k]) + Tenths((call.cd_capacity * 2) \div 100)
                    <= Tenths(call.cd_capacity)

\* a plan with a full multi-track disc and a single-track disc above the limit
C2_Witness ==
    /\ result.kind = "discs"
    /\ call.cd_capacity = CD_74_MIN_SECONDS
    /\ \E a, b \in 1..Len(result.discs) :
         /\ Len(result.discs[a].tracks) >= 2
         /\ DiscTotal(result.discs[a]) + Tenths((call.cd_capacity * 2) \div 100)
                = Tenths(call.cd_capacity)
         /\ Len(result.discs[b].tracks) = 1
         /\ DiscTotal(result.discs[b]) + Tenths((call.cd_capacity * 2) \div 100)
                > Tenths(call.cd_capacity)

\* the sum of s[k..]
RECURSIVE SumSeq(_, _)
SumSeq(s, k) == IF k > Len(s) THEN 0 ELSE s[k] + SumSeq(s, k + 1)

\* duration + gap_overhead of the file `track` of the call
TrackTotal(track) ==
    call.durations[track] + Tenths(IF call.include_gaps THEN DEFAULT_GAP_SECONDS ELSE 0)

\* the duration of disc `a` of the plan before its j-th track was added
DurationBefore(a, j) ==
    SumSeq([i \in 1..(j - 1) |-> TrackTotal(result.discs[a].tracks[i])], 1)

\* the state of the planner when it took the j-th track of disc `a`: the
\* first track of a later disc met the whole previous disc, the first track
\* of the plan met an empty disc
CurrentBefore(a, j) ==
    IF j > 1 THEN [empty |-> FALSE, duration |-> DurationBefore(a, j)]
    ELSE IF a > 1
         THEN [empty |-> FALSE,
               duration |-> DurationBefore(a - 1, Len(result.discs[a - 1].tracks) + 1)]
         ELSE [empty |-> TRUE, duration |-> 0]

\* the j-th track of disc `a` closed the disc before it
Closed(a, j) == j = 1 /\ a > 1

\* the resolved files of the call, in order
ResolvedFiles ==
    SelectSeq(call.audio_files, LAMBDA f : Truthy(call.durations[f]))

\* C18 as stated: for every track placed, the current disc is closed exactly
\* when it is non-empty and currentDuration + (duration + gapOverhead) + margin
\* > capacity with margin = capacity * 0.02 (96 s, 88.8 s); otherwise the
\* track is appended to the current disc.
C18_SplitRule ==
    result.kind = "discs" =>
        /\ ConcatTracks(result.discs, 1) = ResolvedFiles
        /\ \A a \in 1..Len(result.discs) : \A j \in 1..Len(result.discs[a].tracks) :
              LET cur == CurrentBefore(a, j)
                  track_total == TrackTotal(result.discs[a].tracks[j])
              IN Closed(a, j) <=>
                    /\ ~cur.empty
                    /\ (cur.duration + track_total) * 100 + Tenths(call.cd_capacity) * 2
                          > Tenths(call.cd_capacity) * 100

\* C18 (amended): the same rule with the margin cut to whole seconds, margin =
\* int(capacity * 0.02) (96 s for 4800 s, 88 s for 4440 s), over the tracks
\* whose duration resolved to a non-zero value.
C18_SplitRuleWholeSeconds ==
    result.kind = "discs" =>
        /\ ConcatTracks(result.discs, 1) = ResolvedFiles
        /\ \A a \in 1..Len(result.discs) : \A j \in 1..Len(result.discs[a].tracks) :
              LET cur == CurrentBefore(a, j)
                  track_total == TrackTotal(result.discs[a].tracks[j])
              IN Closed(a, j) <=>
                    /\ ~cur.empty
                    /\ cur.duration + track_total
                            + Tenths((call.cd_capacity * 2) \div 100)
                          > Tenths(call.cd_capacity)

\* 300 s, 200 s and 4000 s with 2 s gaps on a 74-minute disc: the second track
\* is appended, the third closes the disc
C18_Witness ==
    /\ result.kind = "discs"
    /\ call.durations = <<3000, 2000, 40000>>
    /\ call.include_gaps
    /\ call.cd_capacity = CD_74_MIN_SECONDS
    /\ Len(result.discs) = 2
    /\ result.discs[1].tracks = <<1, 2>>
    /\ result.discs[2].tracks = <<3>>

-----------------------------------------------------------------------------
(* frames_to_msf.  A Python string is a sequence of one-character strings. *)

\* frame counts 0..MaxFrames are all tried, next to the landmark values
MaxFrames == 160

\* one second short of a minute, a minute, 02:03:37, ten minutes, 79:59:74,
\* and the frame counts around 100 minutes and beyond
LandmarkFrames ==
    {4499, 4500, 9262, 44999, 45000, 359999, 449999, 450000, 450075, 4504574}

DigitChars == <<"0", "1", "2", "3", "4", "5", "6", "7", "8", "9">>

\* str(n) for n >= 0
RECURSIVE Decimal(_)
Decimal(n) ==
    IF n < 10 THEN <<DigitChars[n + 1]>>
    ELSE Decimal(n \div 10) \o <<DigitChars[(n % 10) + 1]>>

\* the format specification :02d for n >= 0
Format02d(n) == IF n < 10 THEN <<"0">> \o Decimal(n) ELSE Decimal(n)

\* variant: the minutes are not taken out of the frame count
frames_to_msf_keeps_minutes(frames) ==
    LET minutes == frames \div (75 * 60)
        seconds == frames \div 75
        rest == frames % 75
    IN Format02d(minutes) \o <<":">> \o Format02d(seconds) \o <<":">> \o Format02d(rest)

\* frames_to_msf
frames_to_msf(frames) ==
    LET minutes == frames \div (75 * 60)
        frames1 == frames % (75 * 60)
        seconds == frames1 \div 75
        frames2 == frames1 % 75
    IN Format02d(minutes) \o <<":">> \o Format02d(seconds) \o <<":">> \o Format02d(frames2)

TimecodeCalls ==
    { [fn |-> "frames_to_msf", frames |-> f] : f \in (0..MaxFrames) \cup LandmarkFrames }

TimecodeInit ==
    /\ QueueInit
    /\ call \in TimecodeCalls
    /\ result = NoResult

FramesToMsf ==
    /\ call.fn = "frames_to_msf"
    /\ result = NoResult
    /\ result' = [kind |-> "msf", text |-> frames_to_msf(call.frames)]
    /\ UNCHANGED <<call, queueVars>>

TimecodeNext == FramesToMsf

SpecTimecode == TimecodeInit /\ [][TimecodeNext]_vars

IsDigit(c) == \E d \in 1..10 : DigitChars[d] = c

DigitValue(c) == (CHOOSE d \in 1..10 : DigitChars[d] = c) - 1

\* the number a two-digit field at positions p, p + 1 of text shows
Field2(text, p) == DigitValue(text[p]) * 10 + DigitValue(text[p + 1])

\* text is MM:SS:FF with two digits per field, showing the timecode of f
IsMSF8(text, f) ==
    /\ Len(text) = 8
    /\ \A p \in {1, 2, 4, 5, 7, 8} : IsDigit(text[p])
    /\ text[3] = ":" /\ text[6] = ":"
    /\ Field2(text, 1) = f \div 4500
    /\ Field2(text, 4) = (f % 4500) \div 75
    /\ Field2(text, 7) = f % 75
    /\ Field2(text, 4) < 60
    /\ Field2(text, 7) < 75

\* C9 as stated: for every frame count f >= 0 the result is exactly 8
\* characters MM:SS:FF, MM = f div 4500, SS = (f mod 4500) div 75, FF = f mod 75,
\* SS < 60, FF < 75, each field two digits.
C9_AlwaysEightChars ==
    result.kind = "msf" => IsMSF8(result.text, call.frames)

\* C9 (amended): that holds for 0 <= f < 450000 (less than 100 minutes); from
\* 450000 frames on the minutes field takes three or more digits, the result is
\* longer than 8 characters and still ends in :SS:FF with the same SS and FF.
C9_EightCharsBelow100Min ==
    result.kind = "msf" =>
        LET f == call.frames
            n == Len(result.text)
        IN IF f < 450000
           THEN IsMSF8(result.text, f)
           ELSE /\ n > 8
                /\ result.text[n - 5] = ":" /\ result.text[n - 2] = ":"
                /\ \A p \in {n - 4, n - 3, n - 1, n} : IsDigit(result.text[p])
                /\ Field2(result.text, n - 4) = (f % 4500) \div 75
                /\ Field2(result.text, n - 1) = f % 75
                /\ SubSeq(result.text, 1, n - 6) = Decimal(f \div 4500)

\* 9262 frames have been rendered as 02:03:37
C9_Witness ==
    /\ result.kind = "msf"
    /\ call.frames = 9262
    /\ result.text = <<"0", "2", ":", "0", "3", ":", "3", "7">>

-----------------------------------------------------------------------------
(* sanitize_cdtext.  Characters that need care are named: DQUOTE is the     *)
(* double quote, LF, CR and TAB the control characters, U+00E9 and U+2026   *)
(* two non-ASCII code points (e acute, horizontal ellipsis).                *)

\* every text of up to MaxShort characters is tried
MaxShort == 2
\* long texts reach up to MaxOver characters beyond the limit
MaxOver == 3

\* max_length: int = 80
DEFAULT_MAX_LENGTH == 80

NonAscii == {"U+00E9", "U+2026"}

InputChars == {"a", "?", "'", " ", ".", "DQUOTE", "LF", "CR", "TAB"} \cup NonAscii

\* text.encode('ascii', 'replace').decode('ascii'), per character
AsciiReplace(c) == IF c \in NonAscii THEN "?" ELSE c

\* the four text.replace calls, per character
ReplaceSpecial(c) ==
    IF c = "DQUOTE" THEN "'"
    ELSE IF c \in {"LF", "CR", "TAB"} THEN " "
    ELSE c

Ellipsis(text, max_length) == SubSeq(text, 1, max_length - 3) \o <<".", ".", ".">>

\* variant: the ellipsis is the single non-ASCII character
sanitize_cdtext_unicode_ellipsis(text, max_length) ==
    IF text = <<>> THEN <<>>
    ELSE LET replaced == [k \in 1..Len(text) |-> ReplaceSpecial(AsciiReplace(text[k]))]
         IN IF Len(replaced) > max_length
            THEN SubSeq(replaced, 1, max_length - 1) \o <<"U+2026">>
            ELSE replaced

\* sanitize_cdtext
sanitize_cdtext(text, max_length) ==
    IF text = <<>> THEN <<>>
    ELSE LET replaced == [k \in 1..Len(text) |-> ReplaceSpecial(AsciiReplace(text[k]))]
         IN IF Len(replaced) > max_length
            THEN Ellipsis(replaced, max_length)
            ELSE replaced

\* a text of n characters "a" with character c at position k
TextWith(n, k, c) == [p \in 1..n |-> IF p = k THEN c ELSE "a"]

ShortTexts == UNION { [1..n -> InputChars] : n \in 0..MaxShort }

LongTexts ==
    { TextWith(n, k, c) :
        n \in (DEFAULT_MAX_LENGTH - 4)..(DEFAULT_MAX_LENGTH + MaxOver),
        k \in {1, 40} \cup ((DEFAULT_MAX_LENGTH - 4)..(DEFAULT_MAX_LENGTH + 1)),
        c \in InputChars }

SanitizeCalls ==
    { [fn |-> "sanitize_cdtext", text |-> t] : t \in ShortTexts \cup LongTexts }

SanitizeInit ==
    /\ QueueInit
    /\ call \in SanitizeCalls
    /\ result = NoResult

\* sanitize_cdtext(text)
Sanitize ==
    /\ call.fn = "sanitize_cdtext"
    /\ result = NoResult
    /\ result' = [kind |-> "text", passes |-> 1, first |-> <<>>,
                  text |-> sanitize_cdtext(call.text, DEFAULT_MAX_LENGTH)]
    /\ UNCHANGED <<call, queueVars>>

\* sanitize_cdtext applied to its own result
SanitizeAgain ==
    /\ result.kind = "text"
    /\ result.passes = 1
    /\ result' = [kind |-> "text", passes |-> 2, first |-> result.text,
                  text |-> sanitize_cdtext(result.text, DEFAULT_MAX_LENGTH)]
    /\ UNCHANGED <<call, queueVars>>

SanitizeNext == Sanitize \/ SanitizeAgain

SpecSanitize == SanitizeInit /\ [][SanitizeNext]_vars

\* C10: with the default limit of 80 characters sanitize_cdtext is idempotent:
\* sanitizing a sanitized text returns it unchanged, also for texts that were
\* truncated with the ellipsis and texts holding non-ASCII characters, double
\* quotes, newlines, carriage returns or tabs.
C10_SanitizeIdempotent ==
    (result.kind = "text" /\ result.passes = 2) => result.text = result.first

\* a text over the limit with a non-ASCII character was truncated, then
\* sanitized again
C10_Witness ==
    /\ result.kind = "text"
    /\ result.passes = 2
    /\ Len(call.text) > DEFAULT_MAX_LENGTH
    /\ call.text[1] = "U+00E9"
    /\ Len(result.text) = DEFAULT_MAX_LENGTH
    /\ result.text[1] = "?"
    /\ SubSeq(result.text, DEFAULT_MAX_LENGTH - 2, DEFAULT_MAX_LENGTH) = <<".", ".", ".">>

-----------------------------------------------------------------------------
(* calculate_disc_capacity.  Durations and gaps in tenths of a second.      *)

\* gaps: None, or one value per track (no gap, the default 2 s gap)
GapLists(n) ==
    {[given |-> FALSE, values |-> <<>>]}
        \cup {[given |-> TRUE, values |-> [i \in 1..n |-> Tenths(g)]] :
                g \in {0, DEFAULT_GAP_SECONDS}}

\* the first loop: total of the durations that are not None
RECURSIVE TotalResolved(_, _)
TotalResolved(durations, k) ==
    IF k > Len(durations) THEN 0
    ELSE (IF durations[k] # Unresolved THEN durations[k] ELSE 0)
             + TotalResolved(durations, k + 1)

\* `if gaps:` is false for None and for the empty list
GapTime(gaps) ==
    IF gaps.given /\ gaps.values # <<>> THEN SumSeq(gaps.values, 1) ELSE 0

\* cd_capacity = CD_80_MIN_SECONDS if cd_size == 80 else CD_74_MIN_SECONDS
CapacityOf(cd_size) == IF cd_size = 80 THEN CD_80_MIN_SECONDS ELSE CD_74_MIN_SECONDS

\* variant: the remaining time is taken against the capacity less a 2% margin
calculate_disc_capacity_with_margin(durations, cd_size, gaps) ==
    LET total_seconds == TotalResolved(durations, 1) + GapTime(gaps)
        cd_capacity == CapacityOf(cd_size)
        remaining_seconds == Tenths(cd_capacity - safety_margin(cd_capacity)) - total_seconds
    IN [total_seconds |-> total_seconds,
        remaining_seconds |-> remaining_seconds,
        cd_capacity |-> cd_capacity,
        cd_size |-> cd_size,
        track_count |-> Len(durations),
        failed_files |-> {i \in 1..Len(durations) : durations[i] = Unresolved},
        fits_on_disc |-> remaining_seconds >= 0,
        gap_time |-> GapTime(gaps)]

\* calculate_disc_capacity (percent_used and the formatted texts are left out)
calculate_disc_capacity(durations, cd_size, gaps) ==
    LET total_seconds == TotalResolved(durations, 1) + GapTime(gaps)
        cd_capacity == CapacityOf(cd_size)
        remaining_seconds == Tenths(cd_capacity) - total_seconds
    IN [total_seconds |-> total_seconds,
        remaining_seconds |-> remaining_seconds,
        cd_capacity |-> cd_capacity,
        cd_size |-> cd_size,
        track_count |-> Len(durations),
        failed_files |-> {i \in 1..Len(durations) : durations[i] = Unresolved},
        fits_on_disc |-> remaining_seconds >= 0,
        gap_time |-> GapTime(gaps)]

CapacityCalls ==
    { [fn |-> "calculate_disc_capacity", durations |-> d, cd_size |-> s, gaps |-> g] :
        d \in UNION { [1..n -> DurationValues] : n \in 0..MaxTracks },
        s \in {74, 80},
        g \in UNION { GapLists(n) : n \in 0..MaxTracks } }

CapacityInit ==
    /\ QueueInit
    /\ call \in {c \in CapacityCalls :
                    ~c.gaps.given \/ Len(c.gaps.values) = Len(c.durations)}
    /\ result = NoResult

CalculateDiscCapacity ==
    /\ call.fn = "calculate_disc_capacity"
    /\ result = NoResult
    /\ result' = [kind |-> "capacity",
                  info |-> calculate_disc_capacity(call.durations, call.cd_size, call.gaps)]
    /\ UNCHANGED <<call, queueVars>>

CapacityNext == CalculateDiscCapacity

SpecCapacity == CapacityInit /\ [][CapacityNext]_vars

\* audio plus gaps of the call, from its arguments
ProgrammeTime ==
    TotalResolved(call.durations, 1)
        + (IF call.gaps.given THEN SumSeq(call.gaps.values, 1) ELSE 0)

\* C11 as stated: fits_on_disc = (remaining >= 0) with remaining taken against
\* capacity minus the 2% safety margin, so a programme whose audio plus gaps is
\* larger than capacity minus margin is reported as not fitting.
C11_FitsAgainstMargin ==
    result.kind = "capacity" =>
        (result.info.fits_on_disc <=>
            ProgrammeTime * 100 <= Tenths(CapacityOf(call.cd_size)) * 98)

\* C11 (amended): fits_on_disc = (remaining_seconds >= 0) with remaining_seconds
\* = capacity - (audio + gaps), taken against the full capacity without any
\* margin: a programme is reported as not fitting exactly when its audio plus
\* gaps is larger than the capacity.
C11_FitsAgainstCapacity ==
    result.kind = "capacity" =>
        /\ result.info.remaining_seconds = Tenths(CapacityOf(call.cd_size)) - ProgrammeTime
        /\ result.info.fits_on_disc <=> (ProgrammeTime <= Tenths(CapacityOf(call.cd_size)))

\* a programme with gaps inside the last 2% of an 80-minute disc is reported
\* as fitting
C11_Witness ==
    /\ result.kind = "capacity"
    /\ call.cd_size = 80
    /\ call.gaps.given
    /\ ProgrammeTime > Tenths(CD_80_MIN_SECONDS) - Tenths(96)
    /\ ProgrammeTime <= Tenths(CD_80_MIN_SECONDS)
    /\ result.info.fits_on_disc

-----------------------------------------------------------------------------
(* verify_burned_disc: quick, standard and full verification.               *)
(* Original durations in tenths of a second; a read-back track carries the  *)
(* length text printed by cdparanoia.                                       *)

MaxVerifyTracks == 2

NoChecksum == "<None>"

\* the length text of a read-back track: "M:SS.FF", a plain number of
\* seconds, or a text that int()/float() reject
Length(kind, minutes, seconds, frames, tenths) ==
    [kind |-> kind, minutes |-> minutes, seconds |-> seconds,
     frames |-> frames, tenths |-> tenths]

LengthTexts ==
    {Length("msf", 3, 7, 12, 0), Length("msf", 3, 5, 0, 0),
     Length("seconds", 0, 0, 0, 1875), Length("bad", 0, 0, 0, 0)}

OriginalDurations == {Unresolved, 1820, 1850, 1875}

\* one ripped track: cdparanoia's return code, the checksum of the ripped
\* file and the stored checksum of the original it is paired with
TrackRips ==
    {[returncode |-> 1, ripped |-> NoChecksum, original |-> "A"]}
        \cup {[returncode |-> 0, ripped |-> r, original |-> o] :
                r \in {NoChecksum, "A", "B"}, o \in {NoChecksum, "A"}}

\* read_audio_cd_tracks: FileNotFoundError gives the empty list
read_audio_cd_tracks(installed, disc) == IF installed THEN disc ELSE <<>>

Abs(x) == IF x < 0 THEN -x ELSE x

\* cd_duration in tenths: minutes * 60 + seconds (the frames are dropped), or
\* the float value of the text
cd_duration(length) ==
    IF length.kind = "msf" THEN Tenths(length.minutes * 60 + length.seconds)
    ELSE length.tenths

\* the body of the duration loop for one track: TRUE when the track clears
\* all_durations_ok
DurationMismatch(orig_duration, length) ==
    /\ orig_duration # Unresolved
    /\ length.kind # "bad"
    /\ Abs(orig_duration - cd_duration(length)) > Tenths(2)

Verdict(value, outcome) == [value |-> value, outcome |-> outcome]

_verify_quick(originals, installed, disc) ==
    LET tracks == read_audio_cd_tracks(installed, disc)
    IN IF tracks = <<>> THEN Verdict(FALSE, "unreadable")
       ELSE IF Len(originals) = Len(tracks) THEN Verdict(TRUE, "passed")
       ELSE Verdict(FALSE, "count mismatch")

_verify_standard(originals, installed, disc) ==
    LET tracks == read_audio_cd_tracks(installed, disc)
    IN IF tracks = <<>> THEN Verdict(FALSE, "unreadable")
       ELSE IF Len(originals) # Len(tracks) THEN Verdict(FALSE, "count mismatch")
       ELSE IF \A i \in 1..Len(tracks) : ~DurationMismatch(originals[i], tracks[i].length)
            THEN Verdict(TRUE, "passed")
            ELSE Verdict(FALSE, "duration mismatch")

\* the status appended to verification_results for one track
RipStatus(rip) ==
    IF rip.returncode # 0 THEN "failed"
    ELSE IF rip.ripped = NoChecksum THEN "failed"
    ELSE IF rip.original = NoChecksum THEN "unknown"
    ELSE IF rip.ripped = rip.original THEN "passed"
    ELSE "failed"

CountStatus(tracks, status) ==
    Cardinality({i \in 1..Len(tracks) : RipStatus(tracks[i].rip) = status})

_verify_full(originals, installed, disc) ==
    IF ~installed THEN Verdict(FALSE, "cdparanoia not found")
    ELSE LET tracks == read_audio_cd_tracks(installed, disc)
         IN IF tracks = <<>> THEN Verdict(FALSE, "unreadable")
            ELSE IF Len(originals) # Len(tracks) THEN Verdict(FALSE, "count mismatch")
            ELSE IF CountStatus(tracks, "failed") > 0 THEN Verdict(FALSE, "failed")
            ELSE IF CountStatus(tracks, "passed") = Len(tracks) THEN Verdict(TRUE, "passed")
            ELSE Verdict(FALSE, "incomplete")

verify_burned_disc(originals, installed, disc, verify_method) ==
    IF verify_method = "quick" THEN _verify_quick(originals, installed, disc)
    ELSE IF verify_method = "standard" THEN _verify_standard(originals, installed, disc)
    ELSE _verify_full(originals, installed, disc)

MatchingRip == [returncode |-> 0, ripped |-> "A", original |-> "A"]

\* the discs a call may find in the drive: quick verification looks at the
\* track count only, standard at the lengths, full at the ripped tracks
Discs(verify_method) ==
    UNION { [1..m -> { [length |-> l, rip |-> r] :
                l \in IF verify_method = "standard" THEN LengthTexts
                      ELSE {Length("msf", 3, 5, 0, 0)},
                r \in IF verify_method = "full" THEN TrackRips
                      ELSE {MatchingRip} }] : m \in 0..MaxVerifyTracks }

Originals(verify_method) ==
    UNION { [1..n -> IF verify_method = "standard" THEN OriginalDurations ELSE {1850}] :
                n \in 0..MaxVerifyTracks }

VerifyCalls ==
    UNION { { [fn |-> "verify_burned_disc", verify_method |-> v, installed |-> inst,
               originals |-> o, disc |-> d] :
                inst \in BOOLEAN, o \in Originals(v), d \in Discs(v) } :
            v \in {"quick", "standard", "full"} }

VerifyInit ==
    /\ QueueInit
    /\ call \in VerifyCalls
    /\ result = NoResult

VerifyBurnedDisc ==
    /\ call.fn = "verify_burned_disc"
    /\ result = NoResult
    /\ LET v == verify_burned_disc(call.originals, call.installed, call.disc,
                                   call.verify_method)
       IN result' = [kind |-> "verify", value |-> v.value, outcome |-> v.outcome]
    /\ UNCHANGED <<call, queueVars>>

VerifyNext == VerifyBurnedDisc

SpecVerify == VerifyInit /\ [][VerifyNext]_vars

\* the tracks the verification read back
TracksRead == read_audio_cd_tracks(call.installed, call.disc)

\* track i of a standard verification was compared and is within 2 seconds
WithinTolerance(i) ==
    /\ call.originals[i] # Unresolved
    /\ TracksRead[i].length.kind # "bad"
    /\ Abs(call.originals[i] - cd_duration(TracksRead[i].length)) <= Tenths(2)

\* C12: standard verification passes only if the track count read back equals
\* the number of originals and every track's duration is within 2 seconds of
\* its original; a track out of tolerance, or one whose duration could not be
\* compared, prevents a pass.
C12_StandardPassNeedsEveryTrack ==
    (result.kind = "verify" /\ call.verify_method = "standard" /\ result.value) =>
        /\ Len(TracksRead) = Len(call.originals)
        /\ \A i \in 1..Len(TracksRead) : WithinTolerance(i)

\* the results of a full verification: one status per track ripped
FullResults == [i \in 1..Len(TracksRead) |-> RipStatus(TracksRead[i].rip)]

\* a full verification that got as far as the summary
FullCompared ==
    /\ call.verify_method = "full"
    /\ call.installed
    /\ TracksRead # <<>>
    /\ Len(TracksRead) = Len(call.originals)

\* what the caller receives from a call the tool chain served and whose disc
\* does not match the originals: a wrong track count, a duration out of
\* tolerance, or a ripped track that failed
ContentMismatch(c) ==
    /\ c.installed
    /\ c.disc # <<>>
    /\ \/ Len(c.disc) # Len(c.originals)
       \/ /\ c.verify_method = "standard"
          /\ \E i \in 1..Len(c.disc) : DurationMismatch(c.originals[i], c.disc[i].length)
       \/ /\ c.verify_method = "full"
          /\ \E i \in 1..Len(c.disc) : RipStatus(c.disc[i].rip) = "failed"

MismatchReturns ==
    { verify_burned_disc(c.originals, c.installed, c.disc, c.verify_method).value :
        c \in {c \in VerifyCalls : ContentMismatch(c)} }

PassReturns ==
    { verify_burned_disc(c.originals, c.installed, c.disc, c.verify_method).value :
        c \in {c \in VerifyCalls :
                /\ c.verify_method = "full" /\ c.installed /\ c.disc # <<>>
                /\ Len(c.disc) = Len(c.originals)
                /\ \A i \in 1..Len(c.disc) : RipStatus(c.disc[i].rip) = "passed"} }

\* C13: full verification reports a pass only if every track's status is
\* passed; with no failed track and at least one unknown track the caller
\* receives an inconclusive outcome that differs both from the one received
\* for a pass and from the one received for a failure.
C13_InconclusiveIsDistinct ==
    (result.kind = "verify" /\ call.verify_method = "full") =>
        /\ result.value =>
              (FullCompared /\ \A i \in 1..Len(TracksRead) : FullResults[i] = "passed")
        /\ ( /\ FullCompared
             /\ \A i \in 1..Len(TracksRead) : FullResults[i] # "failed"
             /\ \E i \in 1..Len(TracksRead) : FullResults[i] = "unknown" )
              => (result.value \notin PassReturns /\ result.value \notin MismatchReturns)

\* the tool chain was not available to the call: cdparanoia is not installed
ToolingUnavailable == ~call.installed

\* C14: when the verification tooling is unavailable the caller receives a
\* 'tooling unavailable' outcome that differs from every outcome received for
\* a disc whose content does not match.
C14_ToolingUnavailableIsDistinct ==
    (result.kind = "verify" /\ ToolingUnavailable) =>
        result.value \notin MismatchReturns

-----------------------------------------------------------------------------
(* calculate_disc_id.  Durations in tenths of a second.  The identifier is  *)
(* wider than 31 bits, so the integer is held as its hexadecimal digits,    *)
(* least significant first.                                                 *)

MaxIdTracks == 3

FRAMES_PER_SECOND == 75

LEAD_IN_FRAMES == 150

HexChars == <<"0", "1", "2", "3", "4", "5", "6", "7", "8", "9",
              "a", "b", "c", "d", "e", "f">>

RECURSIVE ToNibbles(_)
ToNibbles(n) == IF n = 0 THEN <<>> ELSE <<n % 16>> \o ToNibbles(n \div 16)

\* x << bits, for a multiple of four bits
ShiftLeft(nibbles, bits) == [i \in 1..(bits \div 4) |-> 0] \o nibbles

RECURSIVE BitOr(_, _)
BitOr(a, b) ==
    IF a = 0 THEN b
    ELSE IF b = 0 THEN a
    ELSE (IF a % 2 = 1 \/ b % 2 = 1 THEN 1 ELSE 0) + 2 * BitOr(a \div 2, b \div 2)

NibbleAt(nibbles, i) == IF i <= Len(nibbles) THEN nibbles[i] ELSE 0

\* x | y
Or(x, y) ==
    [i \in 1..(IF Len(x) > Len(y) THEN Len(x) ELSE Len(y)) |->
        BitOr(NibbleAt(x, i), NibbleAt(y, i))]

RECURSIVE StripHighZeros(_)
StripHighZeros(nibbles) ==
    IF nibbles # <<>> /\ nibbles[Len(nibbles)] = 0
    THEN StripHighZeros(SubSeq(nibbles, 1, Len(nibbles) - 1))
    ELSE nibbles

\* f"{x:08x}": lowercase hex, most significant digit first, zero-padded to a
\* minimum width of 8
Format08x(x) ==
    LET digits == StripHighZeros(x)
        width == IF Len(digits) > 8 THEN Len(digits) ELSE 8
    IN [i \in 1..width |-> HexChars[NibbleAt(digits, width + 1 - i) + 1]]

\* int(duration * 75)
FramesOf(duration) == (duration * FRAMES_PER_SECOND) \div 10

\* track_offsets after the loop over the files: Len(durations) + 1 entries
RECURSIVE TrackOffsets(_, _, _)
TrackOffsets(durations, k, total_frames) ==
    IF k > Len(durations) THEN <<total_frames>>
    ELSE <<total_frames>>
            \o TrackOffsets(durations, k + 1, total_frames + FramesOf(durations[k]))

\* sum(int(d) for d in str(seconds))
RECURSIVE DigitSum(_)
DigitSum(seconds) ==
    IF seconds < 10 THEN seconds ELSE (seconds % 10) + DigitSum(seconds \div 10)

RECURSIVE Checksum(_, _, _)
Checksum(track_offsets, k, last) ==
    IF k > last THEN 0
    ELSE DigitSum(track_offsets[k] \div FRAMES_PER_SECOND)
            + Checksum(track_offsets, k + 1, last)

NoDiscId == [given |-> FALSE, id |-> <<>>]

\* variant: the lead-out offset is part of the checksum
calculate_disc_id_with_lead_out(durations) ==
    IF \E i \in 1..Len(durations) : durations[i] = Unresolved THEN NoDiscId
    ELSE LET track_offsets == TrackOffsets(durations, 1, LEAD_IN_FRAMES)
             total_frames == track_offsets[Len(track_offsets)]
             disc_length == total_frames \div FRAMES_PER_SECOND
             n == Checksum(track_offsets, 1, Len(track_offsets))
             num_tracks == Len(durations)
         IN [given |-> TRUE,
             id |-> Format08x(Or(Or(ShiftLeft(ToNibbles(n % 255), 24),
                                    ShiftLeft(ToNibbles(disc_length), 8)),
                                 ToNibbles(num_tracks)))]

calculate_disc_id(durations) ==
    IF \E i \in 1..Len(durations) : durations[i] = Unresolved THEN NoDiscId
    ELSE LET track_offsets == TrackOffsets(durations, 1, LEAD_IN_FRAMES)
             total_frames == track_offsets[Len(track_offsets)]
             disc_length == total_frames \div FRAMES_PER_SECOND
             n == Checksum(track_offsets, 1, Len(track_offsets) - 1)
             num_tracks == Len(durations)
         IN [given |-> TRUE,
             id |-> Format08x(Or(Or(ShiftLeft(ToNibbles(n % 255), 24),
                                    ShiftLeft(ToNibbles(disc_length), 8)),
                                 ToNibbles(num_tracks)))]

\* 1 s, 185 s, 200.5 s, one hour, and a file longer than 65535 s
IdDurations == {Unresolved, 10, 1850, 2005, 36000, 655400}

\* eight tracks whose start seconds are 2, 8999, 9999, 19999, ..., 59999: the
\* digit sums add up to more than 255
LongProgramme ==
    <<89970, 10000, 100000, 100000, 100000, 100000, 100000, 10>>

DiscIdCalls ==
    { [fn |-> "calculate_disc_id", durations |-> d] :
        d \in UNION { [1..n -> IdDurations] : n \in 0..MaxIdTracks }
                \cup {LongProgramme} }

DiscIdInit ==
    /\ QueueInit
    /\ call \in DiscIdCalls
    /\ result = NoResult

CalculateDiscId ==
    /\ call.fn = "calculate_disc_id"
    /\ result = NoResult
    /\ LET r == calculate_disc_id(call.durations)
       IN result' = [kind |-> "disc_id", given |-> r.given, id |-> r.id]
    /\ UNCHANGED <<call, queueVars>>

DiscIdNext == CalculateDiscId

SpecDiscId == DiscIdInit /\ [][DiscIdNext]_vars

\* the frame at which track k starts (k = number of tracks + 1: the lead-out)
StartFrame(k) ==
    150 + SumSeq([i \in 1..(k - 1) |-> (call.durations[i] * 75) \div 10], 1)

ExpectedChecksum ==
    SumSeq([k \in 1..Len(call.durations) |-> DigitSum(StartFrame(k) \div 75)], 1)

ExpectedDiscLength == StartFrame(Len(call.durations) + 1) \div 75

HexDigitValue(c) == CHOOSE v \in 0..15 : HexChars[v + 1] = c

\* the value of the hex digits first..last of the identifier
RECURSIVE HexField(_, _)
HexField(first, last) ==
    IF last < first THEN 0
    ELSE 16 * HexField(first, last - 1) + HexDigitValue(result.id[last])

\* the identifier is 8 lowercase hex digits holding the three fields apart:
\* checksum mod 255 in bits 24-31, the disc length in bits 8-23 and the track
\* count in bits 0-7
IdHoldsFields ==
    /\ Len(result.id) = 8
    /\ \A i \in 1..Len(result.id) : \E v \in 1..16 : HexChars[v] = result.id[i]
    /\ HexField(1, 2) = ExpectedChecksum % 255
    /\ HexField(3, 6) = ExpectedDiscLength
    /\ HexField(7, 8) = Len(call.durations)

\* C15 as stated: for every list of resolved durations the identifier is
\* ((checksum mod 255) << 24) | (discLengthSeconds << 8) | trackCount as
\* exactly 8 lowercase hex digits, offsets starting at 150 frames and growing
\* by floor(duration * 75), the checksum leaving out the lead-out offset, and
\* the three bit fields do not overlap.
C15_DiscIdFields ==
    (result.kind = "disc_id" /\ result.given) => IdHoldsFields

\* C15 (amended): the same, for programmes of at most 255 tracks whose disc
\* length is below 65536 seconds (every programme that fits on a disc); a
\* longer programme spills its length into the checksum byte.
C15_DiscIdFieldsOnDisc ==
    ( /\ result.kind = "disc_id" /\ result.given
      /\ Len(call.durations) <= 255
      /\ ExpectedDiscLength < 65536 ) => IdHoldsFields

\* an identifier was computed for a programme whose checksum exceeds 255
C15_Witness ==
    /\ result.kind = "disc_id" /\ result.given
    /\ Len(call.durations) > 1
    /\ ExpectedChecksum > 255
    /\ ExpectedDiscLength < 65536

-----------------------------------------------------------------------------
(* lookup_cd_metadata: MusicBrainz first, CDDB as the fallback.             *)

MaxLookupTracks == 2

NoMetadata == [found |-> FALSE, source |-> "<None>"]

\* what a provider does with the query: it finds the disc, does not know it,
\* or fails (HTTP error, network error, malformed answer)
ProviderOutcomes == {"match", "not found", "error"}

\* query_musicbrainz and query_cddb catch every exception and return None
query_musicbrainz(outcome) ==
    IF outcome = "match" THEN [found |-> TRUE, source |-> "MusicBrainz"] ELSE NoMetadata

query_cddb(outcome) ==
    IF outcome = "match" THEN [found |-> TRUE, source |-> "CDDB"] ELSE NoMetadata

\* variant: CDDB is queried whatever MusicBrainz returned
FallsBackAlways(metadata) == TRUE

\* `if not metadata:`
FallsBack(metadata) == ~metadata.found

LookupCalls ==
    { [fn |-> "lookup_cd_metadata", durations |-> d, musicbrainz |-> m, cddb |-> c] :
        d \in UNION { [1..n -> {Unresolved, 1850}] : n \in 0..MaxLookupTracks },
        m \in ProviderOutcomes, c \in ProviderOutcomes }

LookupInit ==
    /\ QueueInit
    /\ call \in LookupCalls
    /\ result = NoResult

\* tracks_metadata before burn_audio_cd has filled it
NotExtracted == "<empty>"

Lookup(at, queries, metadata) ==
    [kind |-> "lookup", at |-> at, queries |-> queries, metadata |-> metadata,
     tracks_metadata |-> NotExtracted]

\* disc_id = self.calculate_disc_id(wav_files); if not disc_id: return None
LookupDiscId ==
    /\ call.fn = "lookup_cd_metadata"
    /\ result = NoResult
    /\ result' = IF calculate_disc_id(call.durations).given
                 THEN Lookup("musicbrainz", <<>>, NoMetadata)
                 ELSE Lookup("returned", <<>>, NoMetadata)
    /\ UNCHANGED <<call, queueVars>>

QueryMusicBrainz ==
    /\ result.kind = "lookup" /\ result.at = "musicbrainz"
    /\ result' = Lookup("fallback", Append(result.queries, "MusicBrainz"),
                        query_musicbrainz(call.musicbrainz))
    /\ UNCHANGED <<call, queueVars>>

QueryCddb ==
    /\ result.kind = "lookup" /\ result.at = "fallback"
    /\ FallsBack(result.metadata)
    /\ result' = Lookup("display", Append(result.queries, "CDDB"), query_cddb(call.cddb))
    /\ UNCHANGED <<call, queueVars>>

KeepFirstMatch ==
    /\ result.kind = "lookup" /\ result.at = "fallback"
    /\ ~FallsBack(result.metadata)
    /\ result' = Lookup("display", result.queries, result.metadata)
    /\ UNCHANGED <<call, queueVars>>

\* if metadata: self._display_lookup_results(metadata); return metadata
LookupReturn ==
    /\ result.kind = "lookup" /\ result.at = "display"
    /\ result' = Lookup("returned", result.queries, result.metadata)
    /\ UNCHANGED <<call, queueVars>>

\* variant: the looked-up metadata is applied whatever the lookup returned
MetadataFromOnline(online_metadata) == "online database"

\* burn_audio_cd: `if online_metadata:` apply_lookup_metadata, else
\* extract_metadata of every file
MetadataFrom(online_metadata) ==
    IF online_metadata.found THEN "online database" ELSE "files"

\* burn_audio_cd goes on to the CD-TEXT preview with the metadata it settled on
DisplayCdtextPreview ==
    /\ result.kind = "lookup" /\ result.at = "returned"
    /\ result' = [result EXCEPT !.at = "preview",
                                !.tracks_metadata = MetadataFrom(result.metadata)]
    /\ UNCHANGED <<call, queueVars>>

LookupNext ==
    \/ LookupDiscId
    \/ QueryMusicBrainz
    \/ QueryCddb
    \/ KeepFirstMatch
    \/ LookupReturn
    \/ DisplayCdtextPreview

SpecLookup == LookupInit /\ [][LookupNext]_vars

Queried(provider) == \E i \in 1..Len(result.queries) : result.queries[i] = provider

\* C16: the providers are queried in the fixed order MusicBrainz, CDDB and the
\* first match wins: CDDB is queried if and only if MusicBrainz was queried
\* and returned no match or failed; when neither provider has a match the
\* lookup returns 'no metadata'.
C16_ProviderOrder ==
    (result.kind = "lookup" /\ result.at = "returned") =>
        /\ result.queries \in {<<>>, <<"MusicBrainz">>, <<"MusicBrainz", "CDDB">>}
        /\ Queried("CDDB") <=> (Queried("MusicBrainz") /\ call.musicbrainz # "match")
        /\ (Queried("MusicBrainz") /\ call.musicbrainz = "match")
              => result.metadata = [found |-> TRUE, source |-> "MusicBrainz"]
        /\ (Queried("CDDB") /\ call.cddb = "match")
              => result.metadata = [found |-> TRUE, source |-> "CDDB"]
        /\ (call.musicbrainz # "match" /\ call.cddb # "match")
              => result.metadata = NoMetadata

\* MusicBrainz failed, CDDB was asked next and failed too: no metadata
C16_Witness ==
    /\ result.kind = "lookup" /\ result.at = "returned"
    /\ call.musicbrainz = "error" /\ call.cddb = "error"
    /\ result.queries = <<"MusicBrainz", "CDDB">>
    /\ result.metadata = NoMetadata

SomeUnresolved == \E k \in 1..Len(call.durations) : call.durations[k] = Unresolved

\* C23: when any track's duration is unresolved, calculate_disc_id returns no
\* identifier, lookup_cd_metadata queries no provider and returns nothing, and
\* burn_audio_cd goes on with the metadata embedded in the files.
C23_UnresolvedMeansFileMetadata ==
    (result.kind = "lookup" /\ SomeUnresolved) =>
        /\ ~calculate_disc_id(call.durations).given
        /\ result.queries = <<>>
        /\ result.metadata = NoMetadata
        /\ result.at \in {"returned", "preview"}
        /\ result.at = "preview" => result.tracks_metadata = "files"

\* one of two durations is unresolved and MusicBrainz knows the disc: it is not
\* asked, and the preview shows the files' metadata
C23_Witness ==
    /\ result.kind = "lookup" /\ result.at = "preview"
    /\ Len(call.durations) = 2
    /\ call.durations[1] # Unresolved /\ call.durations[2] = Unresolved
    /\ call.musicbrainz = "match"
    /\ result.queries = <<>>
    /\ result.tracks_metadata = "files"

-----------------------------------------------------------------------------
(* burn_audio_cd: track order, conversion and the descriptor entries.       *)
(* Gaps and fades in seconds.                                               *)

MaxBurnFiles == 3

NoNumber == -1

UNNUMBERED == 999

DEFAULT_FADE_IN == 0

DEFAULT_FADE_OUT == 0

\* a file handed to burn_audio_cd: the number after "track" in its path, the
\* leading number of its basename, and whether it exists and converts
AudioFile(name, tag, lead, converts) ==
    [name |-> name, tag |-> tag, lead |-> lead, converts |-> converts]

AudioFiles ==
    {AudioFile("song.mp3", NoNumber, NoNumber, TRUE),
     AudioFile("02 - b.mp3", NoNumber, 2, TRUE),
     AudioFile("track_01.mp3", 1, NoNumber, TRUE),
     AudioFile("10 track 3.mp3", 3, 10, TRUE),
     AudioFile("missing.mp3", NoNumber, NoNumber, FALSE)}

extract_track_number(file) ==
    IF file.tag # NoNumber THEN file.tag
    ELSE IF file.lead # NoNumber THEN file.lead
    ELSE UNNUMBERED

\* sorted(audio_files, key=extract_track_number): a stable sort
RECURSIVE SortedByTrackNumber(_, _)
SortedByTrackNumber(audio_files, k) ==
    IF k = 0 THEN <<>>
    ELSE LET before == SortedByTrackNumber(audio_files, k - 1)
             file == audio_files[k]
             c == Cardinality({i \in 1..Len(before) :
                    extract_track_number(before[i]) <= extract_track_number(file)})
         IN SubSeq(before, 1, c) \o <<file>> \o SubSeq(before, c + 1, Len(before))

\* an optional list argument: None, or the list
NoList == [given |-> FALSE, values |-> <<>>]

OrDefault(list, default, n) ==
    IF list.given THEN list.values ELSE [i \in 1..n |-> default]

\* the conversion loop: wav_files, each with the source it was made from and
\* the fades it was made with
RECURSIVE ConvertLoop(_, _, _, _)
ConvertLoop(audio_files_sorted, fade_ins, fade_outs, i) ==
    IF i > Len(audio_files_sorted) THEN <<>>
    ELSE (IF audio_files_sorted[i].converts
          THEN << [source |-> audio_files_sorted[i].name,
                   fade_in |-> IF i <= Len(fade_ins) THEN fade_ins[i] ELSE 0,
                   fade_out |-> IF i <= Len(fade_outs) THEN fade_outs[i] ELSE 0] >>
          ELSE <<>>)
            \o ConvertLoop(audio_files_sorted, fade_ins, fade_outs, i + 1)

MinOf(a, b) == IF a < b THEN a ELSE b

\* burn_audio_cd up to the descriptor: the tracks in the order written, each
\* with its audio, the metadata and the gap zipped to it
burn_audio_cd(audio_files, track_gaps, fade_ins, fade_outs) ==
    LET audio_files_sorted == SortedByTrackNumber(audio_files, Len(audio_files))
        n == Len(audio_files_sorted)
        gaps == OrDefault(track_gaps, DEFAULT_GAP_SECONDS, n)
        wav_files == ConvertLoop(audio_files_sorted, OrDefault(fade_ins, DEFAULT_FADE_IN, n),
                                 OrDefault(fade_outs, DEFAULT_FADE_OUT, n), 1)
        tracks_metadata == [i \in 1..n |-> audio_files_sorted[i].name]
    IN [ok |-> wav_files # <<>>,
        wav_files |-> [j \in 1..Len(wav_files) |-> wav_files[j].source],
        tracks |-> [j \in 1..MinOf(Len(wav_files), MinOf(n, Len(gaps))) |->
                        [audio |-> wav_files[j].source,
                         fade_in |-> wav_files[j].fade_in,
                         fade_out |-> wav_files[j].fade_out,
                         metadata |-> tracks_metadata[j],
                         gap |-> gaps[j]]]]

\* lists of distinct files
FileLists ==
    UNION { {s \in [1..n -> AudioFiles] : \A i, j \in 1..n : i # j => s[i] # s[j]} :
                n \in 1..MaxBurnFiles }

\* None, or one value per file in the order handed over: track k gets k
PerTrack(n) == {NoList, [given |-> TRUE, values |-> [k \in 1..n |-> k]]}

\* configure_fades hands over both fade lists or neither
BurnCalls ==
    UNION { { [fn |-> "burn_audio_cd", audio_files |-> f, track_gaps |-> g,
               fade_ins |-> fi, fade_outs |-> fi, normalize |-> nz, dry_run |-> d] :
                g \in PerTrack(Len(f)) \cup {[given |-> TRUE, values |-> [k \in 1..Len(f) |-> 0]]},
                fi \in PerTrack(Len(f)), nz \in BOOLEAN, d \in BOOLEAN } :
            f \in FileLists }

BurnInit ==
    /\ QueueInit
    /\ call \in BurnCalls
    /\ result = NoResult

\* the call has not returned yet
NoValue == "<running>"

\* subprocess.run(...).returncode of an external command
ReturnCodes == {0, 1}

\* a file inside temp_dir: track_NN.wav of a source, or its norm_track_NN.wav
Asset(source, normalized) == [source |-> source, normalized |-> normalized]

\* step 2: a track whose sox run succeeds is replaced by its normalized file
Normalized(wav_files, normalize, dry_run, sox) ==
    [j \in 1..Len(wav_files) |->
        Asset(wav_files[j], normalize /\ ~dry_run /\ sox[j] = 0)]

\* the checksums kept with the assets: one per file written and read back, none
\* in a dry run, where nothing is written
Checksums(assets, dry_run) ==
    IF dry_run THEN {} ELSE {assets[j] : j \in 1..Len(assets)}

\* steps 1 to 3 inside `with tempfile.TemporaryDirectory() as temp_dir`:
\* conversion, normalization, last_burn_wav_files and last_burn_checksums, the
\* descriptor; with no wav file the call returns False at once
BurnAudioCd ==
    /\ call.fn = "burn_audio_cd"
    /\ result = NoResult
    /\ LET r == burn_audio_cd(call.audio_files, call.track_gaps, call.fade_ins, call.fade_outs)
       IN \E sox \in [1..Len(r.wav_files) -> ReturnCodes] :
            LET assets == Normalized(r.wav_files, call.normalize, call.dry_run, sox)
            IN result' = [kind |-> "burn", ok |-> r.ok, tracks |-> r.tracks,
                          at |-> IF r.ok THEN "step 4" ELSE "returned",
                          attempts |-> <<>>,
                          value |-> IF r.ok THEN NoValue ELSE "False",
                          last_burn_wav_files |-> assets,
                          last_burn_checksums |-> Checksums(assets, call.dry_run),
                          temp_dir |-> r.ok,
                          probed |-> <<>>]
    /\ UNCHANGED <<call, queueVars>>

\* step 4 of a dry run: the command is printed, nothing is written
DryRunReturn ==
    /\ result.kind = "burn" /\ result.at = "step 4"
    /\ call.dry_run
    /\ result' = [result EXCEPT !.at = "returned", !.value = "True", !.temp_dir = FALSE]
    /\ UNCHANGED <<call, queueVars>>

\* result = subprocess.run(['cdrdao', 'write', ...])
WriteCdrdao ==
    /\ result.kind = "burn" /\ result.at = "step 4"
    /\ ~call.dry_run
    /\ \E rc \in ReturnCodes :
         result' = [result EXCEPT
                        !.attempts = Append(@, [tool |-> "cdrdao", returncode |-> rc]),
                        !.at = "cdrdao done"]
    /\ UNCHANGED <<call, queueVars>>

\* variant: the fallback is tried after a successful write as well
FallsBackToWodimAlways(returncode) == TRUE

\* `if result.returncode != 0:` the alternative burn method is tried
FallsBackToWodim(returncode) == returncode # 0

LastReturnCode == result.attempts[Len(result.attempts)].returncode

\* result = subprocess.run(['wodim', ...]) after cdrdao failed
WriteWodim ==
    /\ result.kind = "burn" /\ result.at = "cdrdao done"
    /\ FallsBackToWodim(LastReturnCode)
    /\ \E rc \in ReturnCodes :
         result' = [result EXCEPT
                        !.attempts = Append(@, [tool |-> "wodim", returncode |-> rc]),
                        !.at = "wodim done"]
    /\ UNCHANGED <<call, queueVars>>

\* burn_success = result.returncode == 0; return burn_success
BurnReturn ==
    /\ result.kind = "burn"
    /\ \/ result.at = "wodim done"
       \/ result.at = "cdrdao done" /\ ~FallsBackToWodim(LastReturnCode)
    /\ result' = [result EXCEPT !.at = "returned",
                                !.value = IF LastReturnCode = 0 THEN "True" ELSE "False",
                                !.temp_dir = FALSE]
    /\ UNCHANGED <<call, queueVars>>

\* get_audio_duration of a file of temp_dir: ffprobe fails on a file that was
\* never written or is gone with its directory
get_audio_duration(temp_dir, dry_run) ==
    IF temp_dir /\ ~dry_run THEN "duration" ELSE "None"

\* `if burn_success:` the caller hands last_burn_wav_files and
\* last_burn_checksums to verify_burned_disc, which probes each original file
VerifyLastBurn ==
    /\ result.kind = "burn" /\ result.at = "returned"
    /\ result.value = "True"
    /\ result' = [result EXCEPT
                     !.at = "verified",
                     !.probed = [k \in 1..Len(result.last_burn_wav_files) |->
                                    get_audio_duration(result.temp_dir, call.dry_run)]]
    /\ UNCHANGED <<call, queueVars>>

BurnNext ==
    \/ BurnAudioCd
    \/ DryRunReturn
    \/ WriteCdrdao
    \/ WriteWodim
    \/ BurnReturn
    \/ VerifyLastBurn

SpecBurn == BurnInit /\ [][BurnNext]_vars

\* what the caller configured for the k-th file of the list it handed over
ConfiguredFor(list, default, k) == IF list.given THEN list.values[k] ELSE default

\* C17: the tracks are written in exactly the order of the list handed to
\* burn_audio_cd, never reordered by filename or metadata, and the k-th track
\* written carries the gap and the fades configured for the k-th file of that
\* list (stated for lists whose files all exist and convert).
C17_OrderAsHandedOver ==
    ( /\ result.kind = "burn"
      /\ \A k \in 1..Len(call.audio_files) : call.audio_files[k].converts ) =>
        /\ Len(result.tracks) = Len(call.audio_files)
        /\ \A k \in 1..Len(result.tracks) :
              /\ result.tracks[k].audio = call.audio_files[k].name
              /\ result.tracks[k].gap
                    = ConfiguredFor(call.track_gaps, DEFAULT_GAP_SECONDS, k)
              /\ result.tracks[k].fade_in = ConfiguredFor(call.fade_ins, DEFAULT_FADE_IN, k)
              /\ result.tracks[k].fade_out = ConfiguredFor(call.fade_outs, DEFAULT_FADE_OUT, k)

\* C22 as stated: a writer failure is reported as a failure and is not
\* retried: within one burn_audio_cd call at most one write attempt is made on
\* the inserted disc.
C22_OneWriteAttempt ==
    result.kind = "burn" =>
        /\ Len(result.attempts) <= 1
        /\ (result.at = "returned" /\ result.attempts # <<>>
              /\ result.attempts[1].returncode # 0) => result.value = "False"

\* C22 (amended): within one burn_audio_cd call the disc is written with
\* cdrdao, and when cdrdao fails the core itself makes one more attempt with
\* wodim: at most two attempts, the second only after a failed first, none
\* after a success and none in a dry run; the call reports failure exactly
\* when its last attempt failed.
C22_OneFallbackAttempt ==
    result.kind = "burn" =>
        /\ Len(result.attempts) <= 2
        /\ call.dry_run => result.attempts = <<>>
        /\ \A k \in 1..Len(result.attempts) :
              result.attempts[k].tool = (IF k = 1 THEN "cdrdao" ELSE "wodim")
        /\ Len(result.attempts) = 2 => result.attempts[1].returncode # 0
        /\ (result.at = "returned" /\ result.attempts # <<>>) =>
              /\ result.value = (IF LastReturnCode = 0 THEN "True" ELSE "False")
              /\ (result.attempts[1].returncode # 0) => Len(result.attempts) = 2

\* cdrdao failed, wodim was tried and failed too, and the call returned False
C22_Witness ==
    /\ result.kind = "burn" /\ result.at = "returned"
    /\ Len(result.attempts) = 2
    /\ result.attempts[2].returncode # 0
    /\ result.value = "False"

\* position of the source file `name` in the list handed to burn_audio_cd
RECURSIVE PositionOf(_, _, _)
PositionOf(audio_files, name, k) ==
    IF k > Len(audio_files) THEN 0
    ELSE IF audio_files[k].name = name THEN k
    ELSE PositionOf(audio_files, name, k + 1)

\* C29: every track entry of the descriptor pairs the encoded audio of a
\* source track with the metadata and the gap of that same source track, also
\* when a source file is missing or fails conversion and is left out (stated
\* for lists that the sort by track number leaves in the order handed over).
C29_EntryPairsOneSource ==
    ( /\ result.kind = "burn"
      /\ SortedByTrackNumber(call.audio_files, Len(call.audio_files)) = call.audio_files ) =>
        \A j \in 1..Len(result.tracks) :
            /\ result.tracks[j].metadata = result.tracks[j].audio
            /\ result.tracks[j].gap
                  = ConfiguredFor(call.track_gaps, DEFAULT_GAP_SECONDS,
                                  PositionOf(call.audio_files, result.tracks[j].audio, 1))

\* C30: every encoded asset recorded in last_burn_wav_files by a completed
\* burn can still be probed for its duration when verify_burned_disc runs after
\* burn_audio_cd has returned, and after a non-dry-run burn every recorded
\* asset has an entry in last_burn_checksums.
C30_AssetsOutliveBurn ==
    (result.kind = "burn" /\ result.at = "verified" /\ ~call.dry_run) =>
        \A k \in 1..Len(result.last_burn_wav_files) :
            /\ result.probed[k] # "None"
            /\ result.last_burn_wav_files[k] \in result.last_burn_checksums

-----------------------------------------------------------------------------
(* The track entries of the descriptor: generate_toc_with_cdtext and the    *)
(* loop of burn_audio_cd that writes the descriptor without CD-TEXT.        *)
(* Gaps in tenths of a second.                                              *)

\* a key the metadata dictionary does not hold
Absent == [present |-> FALSE, text |-> <<>>]

Tag(text) == [present |-> TRUE, text |-> text]

Tags == {Tag(<<>>), Tag(<<"a">>), Tag(<<"?">>), Tag(<<"U+00E9">>), Tag(<<"DQUOTE", "a">>)}

MetadataDicts ==
    [title : {Absent, Tag(<<"a">>)},
     performer : Tags \cup {Absent},
     artist : Tags \cup {Absent},
     composer : Tags \cup {Absent}]

\* metadata.get(key, default)
Get(metadata, key, default) == IF metadata[key].present THEN metadata[key].text ELSE default

\* int(seconds * 75)
frames_from_seconds(tenths) == (tenths * 75) \div 10

NoLine == [given |-> FALSE, text |-> <<>>]

Line(text) == [given |-> TRUE, text |-> text]

\* generate_toc_with_cdtext: `if gap > 0:` PREGAP
PregapCdtext(gap) ==
    IF gap > 0 THEN Line(frames_to_msf(frames_from_seconds(gap))) ELSE NoLine

\* variant: a gap of zero gets a PREGAP line too
PregapPlainFromZero(gap) ==
    IF gap >= 0 THEN Line(frames_to_msf(frames_from_seconds(gap))) ELSE NoLine

\* burn_audio_cd, descriptor without CD-TEXT: `if gap > 0:` PREGAP
PregapPlain(gap) ==
    IF gap > 0 THEN Line(frames_to_msf(frames_from_seconds(gap))) ELSE NoLine

\* the i-th track entry written by generate_toc_with_cdtext
TrackEntryCdtext(i, metadata, gap) ==
    LET title == sanitize_cdtext(
                    Get(metadata, "title", <<"T", "r", "a", "c", "k", " ">> \o Decimal(i)),
                    DEFAULT_MAX_LENGTH)
        performer == sanitize_cdtext(
                        Get(metadata, "performer",
                            Get(metadata, "artist", <<"U", "n", "k", "n", "o", "w", "n">>)),
                        DEFAULT_MAX_LENGTH)
        composer == sanitize_cdtext(Get(metadata, "composer", <<>>), DEFAULT_MAX_LENGTH)
    IN [kind |-> "track_entry",
        title |-> Line(title),
        performer |-> Line(performer),
        composer |-> IF composer # <<>> /\ composer # performer THEN Line(composer) ELSE NoLine,
        pregap |-> PregapCdtext(gap)]

\* the i-th track entry of the descriptor without CD-TEXT
TrackEntryPlain(i, gap) ==
    [kind |-> "track_entry", title |-> NoLine, performer |-> NoLine, composer |-> NoLine,
     pregap |-> PregapPlain(gap)]

TocGaps == {0, 1, 5, 20, 25, 100}

TocCalls ==
    { [fn |-> "track_entry", use_cdtext |-> u, i |-> i, metadata |-> m, gap |-> g] :
        u \in BOOLEAN, i \in {1, 2}, m \in MetadataDicts, g \in TocGaps }

TocInit ==
    /\ QueueInit
    /\ call \in TocCalls
    /\ result = NoResult

GenerateTocWithCdtext ==
    /\ call.fn = "track_entry" /\ call.use_cdtext
    /\ result = NoResult
    /\ result' = TrackEntryCdtext(call.i, call.metadata, call.gap)
    /\ UNCHANGED <<call, queueVars>>

GenerateTocPlain ==
    /\ call.fn = "track_entry" /\ ~call.use_cdtext
    /\ result = NoResult
    /\ result' = TrackEntryPlain(call.i, call.gap)
    /\ UNCHANGED <<call, queueVars>>

TocNext ==
    \/ GenerateTocWithCdtext
    \/ GenerateTocPlain

SpecToc == TocInit /\ [][TocNext]_vars

UnknownArtist ==
    <<"U", "n", "k", "n", "o", "w", "n", " ", "A", "r", "t", "i", "s", "t">>

\* the performer the track entry is to show
PerformerOf(metadata) ==
    IF metadata.performer.present THEN metadata.performer.text
    ELSE IF metadata.artist.present THEN metadata.artist.text
    ELSE UnknownArtist

C25_PregapIffPositiveGap ==
    result.kind = "track_entry" =>
        /\ result.pregap.given <=> call.gap > 0
        /\ result.pregap.given =>
              /\ Len(result.pregap.text) = 8
              /\ Field2(result.pregap.text, 1) * 4500 + Field2(result.pregap.text, 4) * 75
                    + Field2(result.pregap.text, 7) = (call.gap * 75) \div 10
              /\ Field2(result.pregap.text, 4) < 60
              /\ Field2(result.pregap.text, 7) < 75

\* a gap of 2.5 seconds in the descriptor without CD-TEXT: PREGAP 00:02:37
C25_Witness ==
    /\ result.kind = "track_entry"
    /\ ~call.use_cdtext
    /\ call.gap = 25
    /\ result.pregap = Line(<<"0", "0", ":", "0", "2", ":", "3", "7">>)

-----------------------------------------------------------------------------
(* main: the multi-disc burn workflow, one loop iteration per disc of the   *)
(* plan (`for disc_num, disc in enumerate(discs, 1)`).                      *)

MaxPlanDiscs == 3

\* no disc has a pending 'Retry this disc?' answered with yes
NoRetry == 0

MultiDiscCalls == { [fn |-> "multi_disc", discs |-> n] : n \in 2..MaxPlanDiscs }

MultiDiscInit ==
    /\ QueueInit
    /\ call \in MultiDiscCalls
    /\ result = NoResult

\* the workflow at disc disc_num; log holds what happened to each disc so far,
\* retry the disc for which 'Retry this disc?' was last answered with yes
MultiDisc(disc_num, at, log, retry) ==
    [kind |-> "multi_disc", disc_num |-> disc_num, at |-> at, log |-> log, retry |-> retry]

Logged(event) == Append(result.log, [disc |-> result.disc_num, event |-> event])

\* `continue`, or the end of the loop body: the for loop takes the next disc
\* of the plan, and ends after the last one
NextIteration(log, retry) ==
    IF result.disc_num < call.discs
    THEN MultiDisc(result.disc_num + 1, "settings", log, retry)
    ELSE MultiDisc(result.disc_num, "complete", log, retry)

\* `break`
Break(log, retry) == MultiDisc(result.disc_num, "complete", log, retry)

StartMultiDisc ==
    /\ call.fn = "multi_disc"
    /\ result = NoResult
    /\ result' = MultiDisc(1, "settings", <<>>, NoRetry)
    /\ UNCHANGED <<call, queueVars>>

\* no disc detected: 'Continue with remaining discs?'
MultiDiscNoDisc ==
    /\ result.kind = "multi_disc" /\ result.at = "settings"
    /\ \E skip \in {"y", "n"} :
         result' = IF skip # "y" THEN Break(Logged("no disc"), result.retry)
                   ELSE NextIteration(Logged("no disc"), result.retry)
    /\ UNCHANGED <<call, queueVars>>

\* disc not blank and 'Continue anyway?' declined: 'Skip this disc and continue?'
MultiDiscNotBlank ==
    /\ result.kind = "multi_disc" /\ result.at = "settings"
    /\ \E skip \in {"y", "n"} :
         result' = IF skip # "y" THEN Break(Logged("not blank"), result.retry)
                   ELSE NextIteration(Logged("not blank"), result.retry)
    /\ UNCHANGED <<call, queueVars>>

\* burn_success = writer.burn_audio_cd(disc['tracks'], ...)
MultiDiscBurn ==
    /\ result.kind = "multi_disc" /\ result.at = "settings"
    /\ \E burn_success \in BOOLEAN :
         result' = MultiDisc(result.disc_num, IF burn_success THEN "burned" ELSE "failed",
                             Logged("burn"),
                             IF result.retry = result.disc_num THEN NoRetry ELSE result.retry)
    /\ UNCHANGED <<call, queueVars>>

\* `if burn_success:` verification is offered before every disc but the last;
\* after a failed verification 'Retry this disc?' answered yes is `continue`
MultiDiscBurned ==
    /\ result.kind = "multi_disc" /\ result.at = "burned"
    /\ \E verification \in {"none", "passed", "failed"}, retry \in {"y", "n"} :
         /\ verification # "none" => result.disc_num < call.discs
         /\ result' = IF verification = "failed" /\ retry = "y"
                      THEN NextIteration(Logged("verification failed"), result.disc_num)
                      ELSE NextIteration(Logged(verification), result.retry)
    /\ UNCHANGED <<call, queueVars>>

\* `else:` 'Retry this disc?'; if not yes, 'Abort remaining discs?'
MultiDiscFailed ==
    /\ result.kind = "multi_disc" /\ result.at = "failed"
    /\ \E retry \in {"y", "n"}, abort \in {"y", "n"} :
         result' = IF retry = "y" THEN NextIteration(Logged("burn failed"), result.disc_num)
                   ELSE IF abort = "y" THEN Break(Logged("burn failed"), result.retry)
                   ELSE NextIteration(Logged("burn failed"), result.retry)
    /\ UNCHANGED <<call, queueVars>>

MultiDiscNext ==
    \/ StartMultiDisc
    \/ MultiDiscNoDisc
    \/ MultiDiscNotBlank
    \/ MultiDiscBurn
    \/ MultiDiscBurned
    \/ MultiDiscFailed

SpecMultiDisc == MultiDiscInit /\ [][MultiDiscNext]_vars

\* C26: when a disc's burn or its verification fails and the operator answers
\* yes to 'Retry this disc?', the same disc is burned again before the workflow
\* moves on to the next disc of the plan: while the answer is pending the
\* workflow is still at that disc and has not finished.
C26_RetryBurnsSameDisc ==
    (result.kind = "multi_disc" /\ result.retry # NoRetry) =>
        /\ result.disc_num = result.retry
        /\ result.at # "complete"

====
